---------------------------- MODULE Spec2Model ----------------------------
(***************************************************************************)
(* Task Analysis Dashboard (src/src/App.tsx): a React component that       *)
(* ingests a CSV of task records, filters them by a date window and        *)
(* derives per-user streak statistics.                                     *)
(*                                                                         *)
(* JavaScript strings are sequences of one-character strings, so that      *)
(* match, split, trim and toLowerCase are computed on the text itself.     *)
(* The three kanji of the date format are written "nen" (U+5E74),          *)
(* "gatsu" (U+6708) and "nichi" (U+65E5).  Numbers are records that carry  *)
(* NaN, and a Date object is represented by its time value, counted in     *)
(* ticks of three hours.                                                   *)
(***************************************************************************)
EXTENDS Integers, Sequences, FiniteSets, TLC

VARIABLES
    tasks,          \* useState<Task[]>        (App.tsx:28)
    userStats,      \* useState<UserStats[]>   (App.tsx:29)
    startDate,      \* useState<string>        (App.tsx:30)
    endDate,        \* useState<string>        (App.tsx:31)
    sortBy,         \* useState                (App.tsx:32)
    parsing,        \* Papa.parse calls whose complete callback has not run yet
    effectPending,  \* the useEffect of App.tsx:110 is scheduled
    now,            \* the wall clock, new Date()
    tz,             \* the runtime's time-zone offset east of UTC
    pc,             \* position inside one analyzeTaskData call
    filteredTasks,  \* analyzeTaskData's argument, sorted in place
    idx,            \* records of filteredTasks the forEach has processed
    userStatsMap,   \* the Map of App.tsx:72, in insertion order
    callsLeft       \* analyzeTaskData calls still to be made on filteredTasks

vars == <<tasks, userStats, startDate, endDate, sortBy, parsing, effectPending,
          now, tz, pc, filteredTasks, idx, userStatsMap, callsLeft>>

appVars == <<tasks, startDate, endDate, sortBy, parsing, effectPending>>

passVars == <<pc, filteredTasks, idx, userStatsMap, callsLeft>>

-----------------------------------------------------------------------------
(* Bounds of the model                                                      *)

MaxRows == 2        \* data rows of an uploaded file
MaxPassLen == 4     \* records handed to one analyzeTaskData call
MaxIdemLen == 3     \* records of an input analysed repeatedly
MaxCalls == 2       \* repeated analyzeTaskData calls on one input
MaxTicks == 1       \* clock advances (of one day each)
MaxParsing == 1     \* Papa.parse calls in flight

-----------------------------------------------------------------------------
(* JavaScript values                                                        *)

undefined == <<"undefined">>

Num(n) == [k |-> "num", n |-> n]

NaN == [k |-> "nan", n |-> 0]

null == [k |-> "null", n |-> 0]

\* Date time values in ticks: 8 ticks a day.
UnitsPerDay == 8

\* new Date(0)
Epoch == 0

\* new Date(8640000000000000): 8.64e15 ms = 8e8 ticks of 3 h
EndOfTime == 800000000

Digits == <<"0", "1", "2", "3", "4", "5", "6", "7", "8", "9">>

IsDigit(c) == \E i \in 1..10 : Digits[i] = c

DigitVal(c) == (CHOOSE i \in 1..10 : Digits[i] = c) - 1

Upper == <<"A", "D", "N", "S", "T", "U">>

Lower == <<"a", "d", "n", "s", "t", "u">>

\* String.prototype.toLowerCase
toLowerCase(s) ==
    [i \in 1..Len(s) |->
        IF \E j \in 1..Len(Upper) : Upper[j] = s[i]
        THEN Lower[CHOOSE j \in 1..Len(Upper) : Upper[j] = s[i]]
        ELSE s[i]]

\* Array.prototype.indexOf / findIndex, 0-based, -1 when absent
indexOf(arr, x) ==
    IF \E i \in 1..Len(arr) : arr[i] = x
    THEN (CHOOSE i \in 1..Len(arr) : arr[i] = x /\ \A j \in 1..(i-1) : arr[j] # x) - 1
    ELSE -1

\* arr[i] for a 0-based index: undefined outside the array
At(arr, i) == IF i >= 0 /\ i < Len(arr) THEN arr[i + 1] ELSE undefined

\* s.split(':')[0]
splitColonHead(s) ==
    IF \E i \in 1..Len(s) : s[i] = ":"
    THEN SubSeq(s, 1, (CHOOSE i \in 1..Len(s) : s[i] = ":" /\ \A j \in 1..(i-1) : s[j] # ":") - 1)
    ELSE s

\* String.prototype.trim
trim(s) ==
    IF \A i \in 1..Len(s) : s[i] = " " THEN <<>>
    ELSE LET a == CHOOSE i \in 1..Len(s) : s[i] # " " /\ \A j \in 1..(i-1) : s[j] = " "
             b == CHOOSE i \in 1..Len(s) : s[i] # " " /\ \A j \in (i+1)..Len(s) : s[j] = " "
         IN  SubSeq(s, a, b)

\* Number(<digits>)
RECURSIVE ToNumber(_)
ToNumber(ds) ==
    IF ds = <<>> THEN 0
    ELSE 10 * ToNumber(SubSeq(ds, 1, Len(ds) - 1)) + DigitVal(ds[Len(ds)])

-----------------------------------------------------------------------------
(* Dates                                                                    *)

\* Day number (days since 1970-01-01) of the first day of month mn (0-based)
\* of year y, proleptic Gregorian calendar.
DayFromYearMonth(y, mn) ==
    LET m   == mn + 1
        yy  == IF m <= 2 THEN y - 1 ELSE y
        era == yy \div 400
        yoe == yy - era * 400
        mp  == IF m > 2 THEN m - 3 ELSE m + 9
        doy == (153 * mp + 2) \div 5
        doe == yoe * 365 + yoe \div 4 - yoe \div 100 + doy
    IN  era * 146097 + doe - 719468

\* ECMAScript MakeDay(year, month, date): month and date overflow carry over
MakeDay(year, month, date) ==
    DayFromYearMonth(year + month \div 12, month % 12) + date - 1

\* ECMAScript TimeClip
TimeClip(t) == IF t > EndOfTime \/ t < -EndOfTime THEN NaN ELSE Num(t)

\* new Date(year, monthIndex, day): local midnight; years 0..99 mean 1900..1999
NewDateLocal(year, monthIndex, day, zone) ==
    LET yr == IF year >= 0 /\ year <= 99 THEN 1900 + year ELSE year
    IN  TimeClip(MakeDay(yr, monthIndex, day) * UnitsPerDay - zone)

\* First index >= i of s that holds no digit (Len(s)+1 when the digits run to the end)
RECURSIVE DigitRunEnd(_, _)
DigitRunEnd(s, i) ==
    IF i <= Len(s) /\ IsDigit(s[i]) THEN DigitRunEnd(s, i + 1) ELSE i

\* /(\d+)nen(\d+)gatsu(\d+)nichi/ tried at position i: the three digit groups, or <<>>
MatchAt(s, i) ==
    LET a == DigitRunEnd(s, i)
        b == DigitRunEnd(s, a + 1)
        c == DigitRunEnd(s, b + 1)
    IN  IF /\ a > i /\ a <= Len(s) /\ s[a] = "nen"
           /\ b > a + 1 /\ b <= Len(s) /\ s[b] = "gatsu"
           /\ c > b + 1 /\ c <= Len(s) /\ s[c] = "nichi"
        THEN <<SubSeq(s, i, a - 1), SubSeq(s, a + 1, b - 1), SubSeq(s, b + 1, c - 1)>>
        ELSE <<>>

\* The leftmost position >= i at which the pattern matches: its groups, or <<>>
RECURSIVE FirstMatch(_, _)
FirstMatch(s, i) ==
    IF i > Len(s) THEN <<>>
    ELSE IF MatchAt(s, i) # <<>> THEN MatchAt(s, i)
    ELSE FirstMatch(s, i + 1)

\* dateString.match(/(\d+)nen(\d+)gatsu(\d+)nichi/): the leftmost match, or <<>> for null
match(s) == FirstMatch(s, 1)

\* new Date(dateString) for a string: the ISO date-only form YYYY-MM-DD is UTC
\* midnight of that day; text that is no date gives an Invalid Date.
NewDateString(s) ==
    IF /\ Len(s) = 10
       /\ \A i \in {1, 2, 3, 4, 6, 7, 9, 10} : IsDigit(s[i])
       /\ s[5] = "-" /\ s[8] = "-"
    THEN LET y == ToNumber(SubSeq(s, 1, 4))
             m == ToNumber(SubSeq(s, 6, 7))
             d == ToNumber(SubSeq(s, 9, 10))
         IN  IF m >= 1 /\ m <= 12 /\ d >= 1 /\ d <= 31
             THEN TimeClip(MakeDay(y, m - 1, d) * UnitsPerDay)
             ELSE NaN
    ELSE NaN

\* parseJapaneseDate: undefined.match throws a TypeError, which the catch turns
\* into new Date(); new Date(dateString) never throws.
parseJapaneseDate(dateString, zone, clock) ==
    IF dateString = undefined THEN Num(clock)
    ELSE LET m == match(dateString)
         IN  IF m # <<>>
             THEN NewDateLocal(ToNumber(m[1]), ToNumber(m[2]) - 1, ToNumber(m[3]), zone)
             ELSE NewDateString(dateString)

-----------------------------------------------------------------------------
(* Array.prototype.sort                                                     *)

\* a - b on numbers
Minus(a, b) == IF a.k = "nan" \/ b.k = "nan" THEN NaN ELSE Num(a.n - b.n)

\* What sort makes of a comparator's result v: NaN counts as +0
CompareValue(v) == IF v.k = "nan" THEN 0 ELSE v.n

\* ECMAScript's "consistent comparator" over the elements 1..n, c[i][j] being
\* the value sort uses for comparefn(element i, element j)
ConsistentComparator(c, n) ==
    \A i, j, k \in 1..n :
        /\ c[i][i] = 0
        /\ (c[i][j] = 0) => (c[j][i] = 0)
        /\ (c[i][j] = 0 /\ c[j][k] = 0) => (c[i][k] = 0)
        /\ (c[i][j] < 0 /\ c[j][k] < 0) => (c[i][k] < 0)
        /\ (c[i][j] > 0 /\ c[j][k] > 0) => (c[i][k] > 0)

\* A variant of the insertion that puts element j in front of the elements it
\* compares equal to: a sort that is not stable
InsertIndexBeforeEqual(perm, j, c) ==
    LET keep == IF \E p \in 1..Len(perm) : c[perm[p]][j] < 0
                THEN CHOOSE p \in 1..Len(perm) :
                        /\ c[perm[p]][j] < 0
                        /\ \A q \in (p+1)..Len(perm) : c[perm[q]][j] >= 0
                ELSE 0
    IN  SubSeq(perm, 1, keep) \o <<j>> \o SubSeq(perm, keep + 1, Len(perm))

\* Insertion of element j into the sorted index list perm, behind every element
\* that does not compare greater than it
InsertIndex(perm, j, c) ==
    LET keep == IF \E p \in 1..Len(perm) : c[perm[p]][j] <= 0
                THEN CHOOSE p \in 1..Len(perm) :
                        /\ c[perm[p]][j] <= 0
                        /\ \A q \in (p+1)..Len(perm) : c[perm[q]][j] > 0
                ELSE 0
    IN  SubSeq(perm, 1, keep) \o <<j>> \o SubSeq(perm, keep + 1, Len(perm))

RECURSIVE StableOrder(_, _)
StableOrder(c, n) ==
    IF n = 0 THEN <<>> ELSE InsertIndex(StableOrder(c, n - 1), n, c)

IndexPermutations(n) ==
    {p \in [1..n -> 1..n] : \A i, j \in 1..n : p[i] = p[j] => i = j}

\* The orders sort may leave the n elements in: the stable sorted order for a
\* consistent comparator, an implementation-defined order otherwise.
SortOrders(c, n) ==
    IF ConsistentComparator(c, n) THEN {StableOrder(c, n)} ELSE IndexPermutations(n)

Permute(arr, perm) == [i \in 1..Len(arr) |-> arr[perm[i]]]

\* parseJapaneseDate(t.due).getTime() of the first n elements of arr
RECURSIVE DueTimes(_, _, _, _)
DueTimes(arr, n, zone, clock) ==
    IF n = 0 THEN <<>>
    ELSE Append(DueTimes(arr, n - 1, zone, clock),
                parseJapaneseDate(arr[n].due, zone, clock))

\* (a, b) => parseJapaneseDate(a.due).getTime() - parseJapaneseDate(b.due).getTime()
RECURSIVE CompareRow(_, _, _)
CompareRow(t, i, n) ==
    IF n = 0 THEN <<>>
    ELSE Append(CompareRow(t, i, n - 1), CompareValue(Minus(t[i], t[n])))

RECURSIVE CompareRows(_, _)
CompareRows(t, m) ==
    IF m = 0 THEN <<>>
    ELSE Append(CompareRows(t, m - 1), CompareRow(t, m, Len(t)))

CompareDue(arr, zone, clock) == CompareRows(DueTimes(arr, Len(arr), zone, clock), Len(arr))

\* filteredTasks.sort(...) of line 74: the arrays the in-place sort may leave
SortTasks(arr, zone, clock) ==
    {Permute(arr, p) : p \in SortOrders(CompareDue(arr, zone, clock), Len(arr))}

\* (a, b) => b[sortBy] - a[sortBy]
CompareStat(arr, key) ==
    [i \in 1..Len(arr) |-> [j \in 1..Len(arr) |-> arr[j][key] - arr[i][key]]]

\* userStats.sort(...) of the render, line 152: in place, on the state array
RenderSort(arr, key) == Permute(arr, StableOrder(CompareStat(arr, key), Len(arr)))

-----------------------------------------------------------------------------
(* analyzeTaskData                                                          *)

Done == <<"D", "o", "n", "e">>

Archived == <<"A", "r", "c", "h", "i", "v", "e", "d">>

Todo == <<"T", "o", "d", "o">>

\* userStatsMap.has(user)
Has(map, user) == \E i \in 1..Len(map) : map[i].user = user

\* The Map's slot of user
SlotOf(map, user) == CHOOSE i \in 1..Len(map) : map[i].user = user

\* userStatsMap.get(user)
Get(map, user) == map[SlotOf(map, user)]

\* The object of lines 76-84
NewStats(user) ==
    [user |-> user, currentStreak |-> 0, longestStreak |-> 0, totalTasks |-> 0,
     completedTasks |-> 0, currentStreakStart |-> null, currentStreakEnd |-> null]

\* Lines 90-97: a Done task on the entry, already counted by line 88
CompleteTask(counted, task, zone, clock) ==
    LET streak == counted.currentStreak + 1
    IN  [counted EXCEPT
            !.completedTasks = @ + 1,
            !.currentStreak = streak,
            !.longestStreak = IF streak > @ THEN streak ELSE @,
            !.currentStreakStart =
                IF @ = null THEN parseJapaneseDate(task.due, zone, clock) ELSE @,
            !.currentStreakEnd = parseJapaneseDate(task.due, zone, clock)]

\* Lines 98-103: an Archived task on the entry, already counted by line 88
ArchiveTask(counted) ==
    [counted EXCEPT !.currentStreak = 0,
                    !.currentStreakStart = null,
                    !.currentStreakEnd = null]

\* A variant of lines 88-104 in which an Archived task leaves the streak running
UpdateStatsStreakSurvivesArchive(stats, task, zone, clock) ==
    LET counted == [stats EXCEPT !.totalTasks = @ + 1]
    IN  IF task.status = Done THEN CompleteTask(counted, task, zone, clock)
        ELSE counted

\* A variant of lines 88-104 in which an Archived task zeroes the streak but
\* keeps its span dates
UpdateStatsDatesSurviveArchive(stats, task, zone, clock) ==
    LET counted == [stats EXCEPT !.totalTasks = @ + 1]
    IN  IF task.status = Done THEN CompleteTask(counted, task, zone, clock)
        ELSE IF task.status = Archived THEN [counted EXCEPT !.currentStreak = 0]
        ELSE counted

\* A variant of lines 88-104 in which an Archived task also zeroes longestStreak
UpdateStatsArchiveClearsLongest(stats, task, zone, clock) ==
    LET counted == [stats EXCEPT !.totalTasks = @ + 1]
    IN  IF task.status = Done THEN CompleteTask(counted, task, zone, clock)
        ELSE IF task.status = Archived
        THEN [ArchiveTask(counted) EXCEPT !.longestStreak = 0]
        ELSE counted

\* Lines 88-104 on the entry of the task's user
UpdateStats(stats, task, zone, clock) ==
    LET counted == [stats EXCEPT !.totalTasks = @ + 1]
    IN  IF task.status = Done THEN CompleteTask(counted, task, zone, clock)
        ELSE IF task.status = Archived THEN ArchiveTask(counted)
        ELSE counted

\* One iteration of the forEach, lines 75-104
ProcessTask(map, task, zone, clock) ==
    LET m == IF Has(map, task.user) THEN map ELSE Append(map, NewStats(task.user))
        s == SlotOf(m, task.user)
    IN  [m EXCEPT ![s] = UpdateStats(m[s], task, zone, clock)]

\* The forEach over the first n records of the sorted array
RECURSIVE ForEach(_, _, _, _)
ForEach(sorted, n, zone, clock) ==
    IF n = 0 THEN <<>>
    ELSE ProcessTask(ForEach(sorted, n - 1, zone, clock), sorted[n], zone, clock)

\* Array.from(userStatsMap.values()) of a whole call on an already sorted array
StatsOf(sorted, zone, clock) == ForEach(sorted, Len(sorted), zone, clock)

-----------------------------------------------------------------------------
(* Texts the inputs are drawn from                                          *)

\* "2024(nen)3(gatsu)5(nichi)"
Due0305 == <<"2", "0", "2", "4", "nen", "3", "gatsu", "5", "nichi">>

\* "2024(nen)3(gatsu)6(nichi)"
Due0306 == <<"2", "0", "2", "4", "nen", "3", "gatsu", "6", "nichi">>

\* "1969(nen)12(gatsu)31(nichi)"
Due1969 == <<"1", "9", "6", "9", "nen", "1", "2", "gatsu", "3", "1", "nichi">>

\* "TBD": no date at all
DueText == <<"T", "B", "D">>

\* "2024-03-05", the value of an <input type="date">
Iso0305 == <<"2", "0", "2", "4", "-", "0", "3", "-", "0", "5">>

UserA == <<"A">>

UserB == <<"B">>

\* Noon UTC of 2024-03-05
Now0 == MakeDay(2024, 2, 5) * UnitsPerDay + UnitsPerDay \div 2

\* Time-zone offsets east of UTC, in ticks: UTC-6, UTC, UTC+9
Zones == {-2, 0, 3}

\* All sequences over S of length at most n
SeqsUpTo(S, n) == UNION {[1..k -> S] : k \in 0..n}

MakeTask(status, user, due) ==
    [status |-> status, taskName |-> user \o <<":", "t">>, assignee |-> <<"x">>,
     due |-> due, user |-> user, userName |-> undefined]

-----------------------------------------------------------------------------
(* One analyzeTaskData call, record by record                               *)

\* Lines 72-74: a fresh Map, and the argument sorted in place
BeginPass ==
    /\ pc = "idle"
    /\ callsLeft > 0
    /\ \E sorted \in SortTasks(filteredTasks, tz, now) : filteredTasks' = sorted
    /\ userStatsMap' = <<>>
    /\ idx' = 0
    /\ pc' = "forEach"
    /\ callsLeft' = callsLeft - 1
    /\ UNCHANGED <<appVars, userStats, now, tz>>

\* Lines 75-104: the forEach callback on the next record
ProcessRecord ==
    /\ pc = "forEach"
    /\ idx < Len(filteredTasks)
    /\ userStatsMap' = ProcessTask(userStatsMap, filteredTasks[idx + 1], tz, now)
    /\ idx' = idx + 1
    /\ UNCHANGED <<appVars, userStats, now, tz, pc, filteredTasks, callsLeft>>

\* Line 107: setUserStats(Array.from(userStatsMap.values()))
EndPass ==
    /\ pc = "forEach"
    /\ idx = Len(filteredTasks)
    /\ userStats' = userStatsMap
    /\ pc' = "idle"
    /\ UNCHANGED <<appVars, now, tz, filteredTasks, idx, userStatsMap, callsLeft>>

\* The wall clock moves on by a day; no code runs meanwhile
Tick ==
    /\ pc = "idle"
    /\ now < Now0 + MaxTicks * UnitsPerDay
    /\ now' = now + UnitsPerDay
    /\ UNCHANGED <<appVars, userStats, tz, passVars>>

InitApp ==
    /\ tasks = <<>>
    /\ userStats = <<>>
    /\ startDate = <<>>
    /\ endDate = <<>>
    /\ sortBy = "longestStreak"
    /\ parsing = 0
    /\ effectPending = TRUE
    /\ now = Now0

PassTasks ==
    {MakeTask(st, u, d) : st \in {Done, Archived}, u \in {UserA, UserB},
                          d \in {Due0305, Due0306}}
    \cup {MakeTask(Todo, u, Due0305) : u \in {UserA, UserB}}

\* One call on every input of up to MaxPassLen records
InitPass ==
    /\ InitApp
    /\ tz = 0
    /\ pc = "idle"
    /\ filteredTasks \in SeqsUpTo(PassTasks, MaxPassLen)
    /\ idx = 0
    /\ userStatsMap = <<>>
    /\ callsLeft = 1

NextPass == BeginPass \/ ProcessRecord \/ EndPass

SpecPass == InitPass /\ [][NextPass]_vars

IdemTasks ==
    {MakeTask(Done, u, d) : u \in {UserA, UserB},
                            d \in {Due0305, Due0306, DueText, undefined}}

\* Repeated calls on one array, the clock moving between them
InitIdem ==
    /\ InitApp
    /\ tz \in {0, 3}
    /\ pc = "idle"
    /\ filteredTasks \in SeqsUpTo(IdemTasks, MaxIdemLen)
    /\ idx = 0
    /\ userStatsMap = <<>>
    /\ callsLeft = MaxCalls

NextIdem == BeginPass \/ ProcessRecord \/ EndPass \/ Tick

SpecIdem == InitIdem /\ [][NextIdem]_vars

-----------------------------------------------------------------------------
(* parseCSV's complete callback                                             *)

HdrStatus == <<"S", "t", "a", "t", "u", "s">>

HdrTaskName == <<"T", "a", "s", "k", " ", "n", "a", "m", "e">>

HdrAssignee == <<"A", "s", "s", "i", "g", "n", "e", "e">>

HdrDue == <<"D", "u", "e">>

\* The optional column, as a file may spell it
HdrUserName == <<"U", "s", "e", "r", "_", "N", "a", "m", "e">>

\* 'user_name'
LitUserName == <<"u", "s", "e", "r", "_", "n", "a", "m", "e">>

\* headers.findIndex(header => header.toLowerCase() === 'user_name')
FindUserNameIndex(headers) ==
    indexOf([i \in 1..Len(headers) |-> toLowerCase(headers[i])], LitUserName)

\* A value in a condition: undefined and '' are falsy
Truthy(v) == v # undefined /\ v # <<>>

\* The object of lines 55-62 for one row; user is undefined where
\* taskName.split throws
RowToTask(headers, row) ==
    LET userNameIndex == FindUserNameIndex(headers)
        taskName == At(row, indexOf(headers, HdrTaskName))
    IN  [status   |-> At(row, indexOf(headers, HdrStatus)),
         taskName |-> taskName,
         assignee |-> At(row, indexOf(headers, HdrAssignee)),
         due      |-> At(row, indexOf(headers, HdrDue)),
         user     |-> IF userNameIndex # -1 /\ Truthy(At(row, userNameIndex))
                      THEN At(row, userNameIndex)
                      ELSE IF taskName = undefined THEN undefined
                      ELSE trim(splitColonHead(taskName)),
         userName |-> IF userNameIndex # -1 THEN At(row, userNameIndex) ELSE undefined]

\* Whether the callback throws before line 64: results.data[0] is undefined
\* for an empty file, and taskName.split throws on an undefined taskName
Throws(data) ==
    \/ Len(data) = 0
    \/ \E r \in 2..Len(data) :
          LET userNameIndex == FindUserNameIndex(data[1])
          IN  /\ ~(userNameIndex # -1 /\ Truthy(At(data[r], userNameIndex)))
              /\ At(data[r], indexOf(data[1], HdrTaskName)) = undefined

\* parsedTasks of lines 53-63
ParsedTasks(data) == [r \in 1..(Len(data) - 1) |-> RowToTask(data[1], data[r + 1])]

-----------------------------------------------------------------------------
(* The files Papa.parse may deliver, as results.data                        *)

RequiredHeaders == <<HdrStatus, HdrTaskName, HdrAssignee, HdrDue>>

AllHeaders == RequiredHeaders \o <<HdrUserName>>

\* hs without its i-th header
Without(hs, i) == SubSeq(hs, 1, i - 1) \o SubSeq(hs, i + 1, Len(hs))

\* Header rows: complete, with and without user_name, and lacking one required column
HeaderRows ==
    {RequiredHeaders, AllHeaders} \cup {Without(AllHeaders, i) : i \in 1..4}

\* The cells of the data rows: status, task name, assignee, due, user_name
RowPool ==
    { <<Done,     <<"A", ":", "t">>,           <<"x">>, Due1969, <<>>>>,
      <<Done,     <<"B", ":", "t">>,           <<"x">>, Due0306, UserB>>,
      <<Archived, <<" ", "A", " ", ":", "t">>, <<"x">>, Due0305, <<>>>> }

\* The cells of a pool row under the columns of the header row hs
Cells(hs, cells) == [i \in 1..Len(hs) |-> cells[indexOf(AllHeaders, hs[i]) + 1]]

Files ==
    {<<>>} \cup
    {<<hs>> \o [r \in 1..Len(rows) |-> Cells(hs, rows[r])] :
        hs \in HeaderRows, rows \in SeqsUpTo(RowPool, MaxRows)}

-----------------------------------------------------------------------------
(* The component                                                            *)

\* Lines 112-117: the records of the window
InWindow(task, from, to, zone, clock) ==
    LET taskDate == parseJapaneseDate(task.due, zone, clock)
        start == IF from # <<>> THEN NewDateString(from) ELSE Num(Epoch)
        end == IF to # <<>> THEN NewDateString(to) ELSE Num(EndOfTime)
    IN  /\ taskDate.k = "num" /\ start.k = "num" /\ end.k = "num"
        /\ taskDate.n >= start.n
        /\ taskDate.n <= end.n

WindowFilter(ts, from, to, zone, clock) ==
    SelectSeq(ts, LAMBDA t : InWindow(t, from, to, zone, clock))

\* What analyzeTaskData(arg) may leave behind: the array as its in-place sort
\* left it, and Array.from(userStatsMap.values())
AnalyzeOutcomes(arg, zone, clock) ==
    {[sorted |-> sorted, stats |-> StatsOf(sorted, zone, clock)] :
        sorted \in SortTasks(arg, zone, clock)}

\* Lines 53-65 of the callback on results.data = data: nothing when it throws
CallbackOutcomes(data, zone, clock) ==
    IF Throws(data) THEN {} ELSE AnalyzeOutcomes(ParsedTasks(data), zone, clock)

\* CallbackOutcomes, tabulated once for the files and zones; the clock of a
\* session stays at Now0
CallbackTable ==
    [zone \in Zones |-> [data \in Files |-> CallbackOutcomes(data, zone, Now0)]]

\* A variant of the end of analyzeTaskData that publishes nothing when the Map
\* is empty, so that the statistics of an earlier call stay on display
AnalysedUnlessEmpty(out) ==
    /\ filteredTasks' = out.sorted
    /\ userStatsMap' = out.stats
    /\ idx' = Len(out.sorted)
    /\ userStats' = IF out.stats = <<>> THEN RenderSort(userStats, sortBy)
                    ELSE RenderSort(out.stats, sortBy)
    /\ UNCHANGED <<pc, callsLeft>>

\* The state a finished analyzeTaskData call leaves, after the render it causes
Analysed(out) ==
    /\ filteredTasks' = out.sorted
    /\ userStatsMap' = out.stats
    /\ idx' = Len(out.sorted)
    /\ userStats' = RenderSort(out.stats, sortBy)
    /\ UNCHANGED <<pc, callsLeft>>

\* handleFileUpload, lines 122-127: Papa.parse starts reading the file
HandleFileUpload ==
    /\ ~effectPending
    /\ parsing < MaxParsing
    /\ parsing' = parsing + 1
    /\ UNCHANGED <<tasks, userStats, startDate, endDate, sortBy, effectPending,
                   now, tz, passVars>>

\* The complete callback of lines 50-66 on results.data = data
ParseComplete(data) ==
    /\ ~effectPending
    /\ parsing > 0
    /\ parsing' = parsing - 1
    /\ IF CallbackTable[tz][data] = {}
       THEN UNCHANGED <<tasks, userStats, effectPending, passVars>>
       ELSE \E out \in CallbackTable[tz][data] :
               /\ tasks' = out.sorted
               /\ Analysed(out)
               /\ effectPending' = TRUE
    /\ UNCHANGED <<startDate, endDate, sortBy, now, tz>>

\* The onChange of line 141
SetStartDate(value) ==
    /\ ~effectPending
    /\ startDate' = value
    /\ effectPending' = (value # startDate)
    /\ userStats' = RenderSort(userStats, sortBy)
    /\ UNCHANGED <<tasks, endDate, sortBy, parsing, now, tz, passVars>>

\* The onChange of line 143
SetEndDate(value) ==
    /\ ~effectPending
    /\ endDate' = value
    /\ effectPending' = (value # endDate)
    /\ userStats' = RenderSort(userStats, sortBy)
    /\ UNCHANGED <<tasks, startDate, sortBy, parsing, now, tz, passVars>>

\* The onChange of line 147; sortBy is no dependency of the effect
SetSortBy(value) ==
    /\ ~effectPending
    /\ sortBy' = value
    /\ userStats' = RenderSort(userStats, value)
    /\ UNCHANGED <<tasks, startDate, endDate, parsing, effectPending, now, tz,
                   passVars>>

\* The effect of lines 110-120, run after the render that changed tasks,
\* startDate or endDate (and after the first render)
RecomputeEffect ==
    /\ effectPending
    /\ effectPending' = FALSE
    /\ IF Len(tasks) > 0
       THEN \E out \in AnalyzeOutcomes(
                           WindowFilter(tasks, startDate, endDate, tz, now), tz, now) :
               Analysed(out)
       ELSE UNCHANGED <<userStats, passVars>>
    /\ UNCHANGED <<tasks, startDate, endDate, sortBy, parsing, now, tz>>

WindowDates == {<<>>, Iso0305}

SortKeys == {"currentStreak", "longestStreak"}

Init ==
    /\ InitApp
    /\ tz \in Zones
    /\ pc = "idle"
    /\ filteredTasks = <<>>
    /\ idx = 0
    /\ userStatsMap = <<>>
    /\ callsLeft = 0

Next ==
    \/ HandleFileUpload
    \/ \E data \in Files : ParseComplete(data)
    \/ \E value \in WindowDates : SetStartDate(value)
    \/ \E value \in WindowDates : SetEndDate(value)
    \/ \E value \in SortKeys : SetSortBy(value)
    \/ RecomputeEffect

Spec == Init /\ [][Next]_vars

-----------------------------------------------------------------------------
(* Properties of one analyzeTaskData pass (SpecPass)                        *)

Users == {UserA, UserB}

\* The greatest number of a non-empty finite set
Max(S) == CHOOSE m \in S : \A x \in S : x <= m

\* The positions of user's records among the first i of arr
RecordsOf(arr, i, user) == {j \in 1..i : arr[j].user = user}

\* The number of user's Done records among the first i of arr that come after
\* the last Archived record of user among them
DoneSinceArchived(arr, i, user) ==
    LET mine == RecordsOf(arr, i, user)
        archived == {j \in mine : arr[j].status = Archived}
        last == IF archived = {} THEN 0 ELSE Max(archived)
    IN  Cardinality({j \in mine : j > last /\ arr[j].status = Done})

\* The statuses of user's records among the first i of arr, in order
StatusesOf(arr, i, user) ==
    LET mine == SelectSeq(SubSeq(arr, 1, i), LAMBDA t : t.user = user)
    IN  [k \in 1..Len(mine) |-> mine[k].status]

ExampleStatuses == <<Done, Done, Archived, Done>>

\* arr is in ascending order of parsed due time
AscendingDue(arr, zone, clock) ==
    \A i, j \in 1..Len(arr) :
        i < j => parseJapaneseDate(arr[i].due, zone, clock).n
                    <= parseJapaneseDate(arr[j].due, zone, clock).n

\* C1: while analyzeTaskData walks its sorted array, the records are in
\* ascending due order and, after record idx, every user with a record among
\* the first idx has an entry whose currentStreak is the number of the user's
\* Done records since the user's last Archived record (other statuses change
\* nothing), whose totalTasks and completedTasks count the user's records and
\* Done records; statuses Done, Done, Archived, Done give currentStreak 1,
\* longestStreak 2, totalTasks 4, completedTasks 3.
C1_StreakCountsDoneSinceArchived ==
    pc = "forEach" =>
        /\ AscendingDue(filteredTasks, tz, now)
        /\ \A u \in Users :
            /\ Has(userStatsMap, u) <=> RecordsOf(filteredTasks, idx, u) # {}
            /\ Has(userStatsMap, u) =>
                LET s == Get(userStatsMap, u)
                    mine == RecordsOf(filteredTasks, idx, u)
                IN  /\ s.currentStreak = DoneSinceArchived(filteredTasks, idx, u)
                    /\ s.totalTasks = Cardinality(mine)
                    /\ s.completedTasks =
                          Cardinality({j \in mine : filteredTasks[j].status = Done})
                    /\ StatusesOf(filteredTasks, idx, u) = ExampleStatuses =>
                          /\ s.currentStreak = 1
                          /\ s.longestStreak = 2
                          /\ s.totalTasks = 4
                          /\ s.completedTasks = 3

\* C1 witness: the four records of the example have been processed for user A
C1_ExampleProcessed ==
    /\ pc = "forEach"
    /\ idx = 4
    /\ StatusesOf(filteredTasks, idx, UserA) = ExampleStatuses

StatsInvariant(s) ==
    /\ s.completedTasks <= s.totalTasks
    /\ s.currentStreak <= s.longestStreak
    /\ s.currentStreak = 0 => (s.currentStreakStart = null /\ s.currentStreakEnd = null)

\* C7: after any prefix of the pass, and in what the pass publishes, every
\* entry has completedTasks <= totalTasks, currentStreak <= longestStreak, and
\* no streak dates while currentStreak is 0.
C7_EntityStatsInvariants ==
    /\ \A i \in 1..Len(userStatsMap) : StatsInvariant(userStatsMap[i])
    /\ \A i \in 1..Len(userStats) : StatsInvariant(userStats[i])

\* C7 witness: an entry whose streak an Archived record ended after Done records
C7_StreakEnded ==
    /\ pc = "forEach"
    /\ \E i \in 1..Len(userStatsMap) :
          /\ userStatsMap[i].currentStreak = 0
          /\ userStatsMap[i].completedTasks >= 1
          /\ userStatsMap[i].currentStreakStart = null

\* C8: from one processed record to the next, no user's longestStreak goes
\* down, and after each record it is the greater of its former value and the
\* new currentStreak, hence the greatest currentStreak the user has had in
\* the pass.
C8_LongestStreakMonotoneMax ==
    [][(pc = "forEach" /\ idx' = idx + 1) =>
        \A u \in Users : Has(userStatsMap', u) =>
            LET before == IF Has(userStatsMap, u)
                          THEN Get(userStatsMap, u).longestStreak ELSE 0
                after == Get(userStatsMap', u)
            IN  /\ after.longestStreak >= before
                /\ after.longestStreak = Max({before, after.currentStreak})
                /\ after.longestStreak =
                      Max({DoneSinceArchived(filteredTasks', k, u) : k \in 0..idx'})]_vars

\* C8 witness: a streak of two was ended by an Archived record and longestStreak kept it
C8_LongestKeptAfterArchive ==
    /\ pc = "forEach"
    /\ \E i \in 1..Len(userStatsMap) :
          /\ userStatsMap[i].longestStreak >= 2
          /\ userStatsMap[i].currentStreak = 0

-----------------------------------------------------------------------------
(* Properties of repeated analyzeTaskData calls (SpecIdem)                  *)

\* The due text is parsed to a valid date without the help of the clock
ValidDue(due) == due # undefined /\ parseJapaneseDate(due, 0, Now0).k = "num"

\* A call that is not the first on its array publishes its result
LaterPublication == pc = "forEach" /\ pc' = "idle" /\ callsLeft <= MaxCalls - 2

\* C9 as stated: on every input, malformed and missing due texts included, a
\* later call on the same array publishes the userStats the earlier one did.
C9_IdempotentOnEveryInput ==
    [][LaterPublication => userStats' = userStats]_vars

\* C9 amended: on every input all of whose due texts parse to valid dates,
\* equal due dates included, a later call on the same array publishes the
\* userStats the earlier one did, whatever the clock did meanwhile.
C9_IdempotentOnValidDues ==
    [][(LaterPublication /\ \A i \in 1..Len(filteredTasks) : ValidDue(filteredTasks[i].due))
          => userStats' = userStats]_vars

\* C9 witness: two calls have ended, a day apart, on an input of valid due
\* texts in which two users share a due date
C9_TwoCallsOnTiedDues ==
    /\ pc = "idle"
    /\ callsLeft <= MaxCalls - 2
    /\ now > Now0
    /\ \A i \in 1..Len(filteredTasks) : ValidDue(filteredTasks[i].due)
    /\ \E i, j \in 1..Len(filteredTasks) :
          /\ filteredTasks[i].due = filteredTasks[j].due
          /\ filteredTasks[i].user # filteredTasks[j].user
    /\ Len(userStats) = 2

\* C5: every due text parses to a valid date: "2024(nen)3(gatsu)5(nichi)" to
\* local midnight of 2024-03-05, and text that is no date, or a missing value,
\* to the current time. Stated on the date the forEach has just stored as
\* currentStreakEnd for the Done record idx.
C5_ParseAlwaysYieldsValidDate ==
    (pc = "forEach" /\ idx > 0) =>
        LET task == filteredTasks[idx]
            date == Get(userStatsMap, task.user).currentStreakEnd
        IN  /\ date.k = "num"
            /\ task.due = Due0305 => date.n + tz = MakeDay(2024, 2, 5) * UnitsPerDay
            /\ task.due \in {DueText, undefined} => date = Num(now)

-----------------------------------------------------------------------------
(* Properties of the component (Spec)                                       *)

\* A step in which setUserStats is called: the complete callback that got past
\* line 64, or the effect on a non-empty tasks
Publishes ==
    \/ parsing' = parsing - 1 /\ effectPending'
    \/ effectPending /\ ~effectPending' /\ Len(tasks) > 0

\* C2: with a window set, whenever the upload callback or the effect
\* publishes userStats, each entry's totalTasks counts only the user's records
\* whose due date lies in the window.
C2_PublishedStatsCountWindowOnly ==
    [][(Publishes /\ (startDate # <<>> \/ endDate # <<>>)) =>
        \A i \in 1..Len(userStats') :
            userStats'[i].totalTasks =
                Cardinality({j \in 1..Len(tasks') :
                    /\ tasks'[j].user = userStats'[i].user
                    /\ InWindow(tasks'[j], startDate', endDate', tz', now')})]_vars

\* The day number of the calendar date a year-month-day due text denotes
DueDay(due) ==
    LET m == match(due)
    IN  MakeDay(ToNumber(m[1]), ToNumber(m[2]) - 1, ToNumber(m[3]))

\* The day number of the calendar date a date input holds
InputDay(value) == NewDateString(value).n \div UnitsPerDay

\* The effect has run on the current tasks and window
Recomputed == ~effectPending /\ Len(tasks) > 0

\* task is among the records the last analyzeTaskData call was given
Kept(task) == \E i \in 1..Len(filteredTasks) : filteredTasks[i] = task

\* C3: with both window dates entered, in every time zone, a record whose due
\* text denotes calendar date D is kept if and only if start <= D <= end.
C3_WindowInclusiveInEveryZone ==
    (Recomputed /\ startDate # <<>> /\ endDate # <<>>) =>
        \A j \in 1..Len(tasks) : match(tasks[j].due) # <<>> =>
            (Kept(tasks[j]) <=>
                /\ InputDay(startDate) <= DueDay(tasks[j].due)
                /\ DueDay(tasks[j].due) <= InputDay(endDate))

\* C4: with both window sides open, every record with a parsable due text is
\* analysed, however early its due date.
C4_OpenWindowKeepsEveryRecord ==
    (Recomputed /\ startDate = <<>> /\ endDate = <<>>) =>
        \A j \in 1..Len(tasks) : match(tasks[j].due) # <<>> => Kept(tasks[j])

\* The header row of data lacks one of Status, Task name, Assignee, Due
LacksRequired(data) ==
    Len(data) > 0 /\ \E i \in 1..4 : indexOf(data[1], RequiredHeaders[i]) = -1

\* C6: the complete callback on a file whose header row lacks a required
\* column leaves tasks and userStats as they were.
C6_MissingColumnChangesNothing ==
    [][parsing' = parsing - 1 =>
        \A data \in {d \in Files : LacksRequired(d)} :
            ParseComplete(data) => UNCHANGED <<tasks, userStats>>]_vars

\* What analyzeTaskData makes of the current tasks in the current window: the
\* value(s) of Array.from(userStatsMap.values()); the empty sequence without tasks
WindowAnalyses ==
    IF Len(tasks) = 0 THEN {<<>>}
    ELSE {out.stats : out \in AnalyzeOutcomes(
                         WindowFilter(tasks, startDate, endDate, tz, now), tz, now)}

\* a and b hold the same entries
SameEntries(a, b) ==
    /\ Len(a) = Len(b)
    /\ {a[i] : i \in 1..Len(a)} = {b[i] : i \in 1..Len(b)}

\* arr is in descending order of key
Descending(arr, key) == \A i, j \in 1..Len(arr) : i < j => arr[i][key] >= arr[j][key]

\* C10 as stated: once callback and effect have run, the displayed userStats
\* is the analysis of the current tasks in the current window, as a sequence.
C10_DisplayedEqualsAnalysis ==
    (~effectPending /\ parsing = 0) => userStats \in WindowAnalyses

\* C10 amended: once the effect has run, the displayed userStats holds exactly
\* the entries of the analysis of the current tasks in the current window
\* (none without tasks or without a record in the window), in descending order
\* of the selected sort key.
C10_DisplayedIsSortedAnalysis ==
    ~effectPending =>
        /\ \E stats \in WindowAnalyses : SameEntries(userStats, stats)
        /\ Descending(userStats, sortBy)

\* C10 witness: after a file with records was analysed, a window that holds
\* none of them has emptied the display
C10_WindowEmptiedDisplay ==
    /\ ~effectPending
    /\ Len(tasks) > 0
    /\ endDate # <<>>
    /\ userStats = <<>>

=============================================================================
